---- MODULE Spec2Model ----
(***************************************************************************)
(* Model of main.py: the collector loop (collect_container_stats), the     *)
(* unit normalizer (convert_to_mb) and the analyzer (analyze_max_usage).   *)
(*                                                                         *)
(* Text is a sequence of symbols.  A symbol is one character ("1", "%",    *)
(* ",", " ", "/") or a word that the code never looks inside (a column     *)
(* name such as "Timestamp", a row label such as "T1").  A file is a       *)
(* sequence of lines; every write of the code is one whole line ended by   *)
(* "\n", so the line terminator is left implicit.                          *)
(***************************************************************************)
EXTENDS Integers, Sequences, FiniteSets, TLC

VARIABLES
    pc,             \* position of collect_container_stats
    file,           \* the output target on disk: [exists, lines]
    buf,            \* write buffer of the stream f (lines not yet on disk)
    result,         \* result.stdout of the last docker stats query
    clock,          \* wall clock in seconds (datetime.now())
    ticks,          \* ticks that reached the sleep
    nonEmptyTicks,  \* of those, ticks whose query output was not blank
    samples,        \* history: every Sample line passed to f.write
    outcome,        \* "running", "interrupted" or "error"
    intrAt,         \* history: pc at which the KeyboardInterrupt arrived
    apc,            \* position of analyze_max_usage: "idle" or "done"
    loaded,         \* what pd.read_csv saw: the file at load time
    loadPc,         \* history: collector position when the analyzer loaded
    printed,        \* lines printed by analyze_max_usage
    value,          \* argument of convert_to_mb
    converted,      \* result of convert_to_mb(value)
    cpc             \* "pending" or "done" for the conversion

vars == <<pc, file, buf, result, clock, ticks, nonEmptyTicks, samples, outcome,
          intrAt, apc, loaded, loadPc, printed, value, converted, cpc>>

collectorVars == <<pc, file, buf, result, clock, ticks, nonEmptyTicks, samples,
                   outcome, intrAt>>
analyzerVars == <<apc, loaded, loadPc, printed>>
convertVars == <<value, converted, cpc>>

----------------------------------------------------------------------------
(* Bounds *)

MaxTicks == 3
MaxRows == 3
MaxLen == 3

----------------------------------------------------------------------------
(* Python str operations *)

Whitespace == {" ", "\n"}

RECURSIVE lstrip(_, _)
lstrip(s, chars) ==
    IF s # <<>> /\ Head(s) \in chars THEN lstrip(Tail(s), chars) ELSE s

RECURSIVE rstrip(_, _)
rstrip(s, chars) ==
    IF s # <<>> /\ s[Len(s)] \in chars
    THEN rstrip(SubSeq(s, 1, Len(s) - 1), chars)
    ELSE s

strip(s) == rstrip(lstrip(s, Whitespace), Whitespace)

\* s.find(sub) + 1: the first position where sub occurs in s, 0 if none
find(s, sub) ==
    LET hits == {i \in 1..(Len(s) - Len(sub) + 1) :
                    SubSeq(s, i, i + Len(sub) - 1) = sub}
    IN  IF hits = {} THEN 0 ELSE CHOOSE i \in hits : \A j \in hits : i <= j

\* sub in s
Contains(s, sub) == find(s, sub) # 0

\* s.split(sep), sep a non-empty text
RECURSIVE split(_, _)
split(s, sep) ==
    LET i == find(s, sep)
    IN  IF i = 0
        THEN <<s>>
        ELSE <<SubSeq(s, 1, i - 1)>> \o split(SubSeq(s, i + Len(sep), Len(s)), sep)

\* sep.join(parts)
RECURSIVE join(_, _)
join(parts, sep) ==
    IF parts = <<>> THEN <<>>
    ELSE IF Len(parts) = 1 THEN parts[1]
    ELSE parts[1] \o sep \o join(Tail(parts), sep)

Comma == <<",">>
Delim == <<" ", "/", " ">>

----------------------------------------------------------------------------
(* Collector *)

HEADER ==
    join(<< <<"Timestamp">>, <<"Container">>, <<"CPU_Usage">>, <<"Memory_Usage">>,
            <<"Memory_Percent">>, <<"Disk_Read">>, <<"Disk_Write">> >>, Comma)

Digit(d) == <<"0", "1", "2", "3", "4", "5", "6", "7", "8", "9">>[d + 1]

RECURSIVE NatToStr(_)
NatToStr(n) == IF n < 10 THEN <<Digit(n)>> ELSE NatToStr(n \div 10) \o <<Digit(n % 10)>>

\* datetime.now().strftime("%Y-%m-%d %H:%M:%S"): a text without commas that
\* names the second; the date part is the word "T"
strftime(now) == <<"T">> \o NatToStr(now)

\* What the target may hold before the collector starts
PriorContents ==
    { [exists |-> FALSE, lines |-> <<>>],
      [exists |-> TRUE,
       lines |-> <<HEADER,
                   join(<< <<"T0">>, <<"old">>, <<"7", "%">>, <<"m">>, <<"7", "%">>,
                           <<"1", "B">>, <<"1", "B">> >>, Comma)>>] }

\* stdout of one `docker stats --no-stream --format ...` call
QueryOutputs ==
    { <<>>,
      <<"\n">>,
      <<"c", ",", "1", "%", ",", "m", ",", "2", "%", ",", "1", "k", "B", " ", "/", " ", "2", "B", "\n">>,
      <<"c", ",", "1", "%", ",", "m", ",", "2", "%", ",", "1", "k", "B">>,
      <<"c", ",", "1", "%">>,
      <<"c", ",", "1", "%", ",", "m", ",", "2", "%", ",", "1", "B", " ", "/", " ", "2", "B", " ", "/", " ", "3", "B">>,
      <<"c", ",", ",", "m", ",", "2", "%", ",", "1", "B", " ", "/", " ", "2", "B">>,
      <<"c", ",", "1", "%", ",", "m", ",", "2", "%", ",", "1", "B", " ", "/", " ", "2", "B", ",", "x">> }

\* the emptiness test of line 50 left out
IsBlank_unchecked(out) == FALSE

\* result.stdout.strip() is falsy
IsBlank(out) == strip(out) = <<>>

\* the (disk_read, disk_write) tuple on the right of the unpacking, lines 60-62
BlockIOParts(block_io) ==
    IF Contains(block_io, Delim) THEN split(block_io, Delim) ELSE <<block_io, <<"0", "B">> >>

\* the unpacking of lines 60-62 taking the first two parts of any split
ParseRaises_indexOnly(out) == Len(split(strip(out), Comma)) < 5

\* lines 51-62 raise: IndexError on stats[1..4], ValueError on the unpacking
ParseRaises(out) ==
    LET stats == split(strip(out), Comma)
    IN  \/ Len(stats) < 5
        \/ Len(BlockIOParts(stats[5])) # 2

\* the line passed to f.write, lines 51-67
FormatSample(out, now) ==
    LET stats == split(strip(out), Comma)
        io == BlockIOParts(stats[5])
    IN  join(<<strftime(now), stats[1], stats[2], stats[3], stats[4], io[1], io[2]>>, Comma)

\* 1 for a query output that holds something besides whitespace, else 0
OutputCount(out) == IF \A i \in 1..Len(out) : out[i] \in Whitespace THEN 0 ELSE 1

\* line 25: open(output_file, "w").close()
Truncate ==
    /\ pc = "init"
    /\ file' = [exists |-> TRUE, lines |-> <<>>]
    /\ pc' = "open"
    /\ UNCHANGED <<buf, result, clock, ticks, nonEmptyTicks, samples, outcome, intrAt>>
    /\ UNCHANGED <<analyzerVars, convertVars>>

\* lines 27-31: open in append mode, f.write(header) into the stream's buffer
WriteHeader ==
    /\ pc = "open"
    /\ buf' = Append(buf, HEADER)
    /\ pc' = "query"
    /\ UNCHANGED <<file, result, clock, ticks, nonEmptyTicks, samples, outcome, intrAt>>
    /\ UNCHANGED <<analyzerVars, convertVars>>

\* lines 36-47: subprocess.run
Query ==
    /\ pc = "query"
    /\ ticks < MaxTicks
    /\ \E out \in QueryOutputs : result' = out
    /\ pc' = "parse"
    /\ UNCHANGED <<file, buf, clock, ticks, nonEmptyTicks, samples, outcome, intrAt>>
    /\ UNCHANGED <<analyzerVars, convertVars>>

\* lines 50-67 and 75-77
ParseAndWrite ==
    /\ pc = "parse"
    /\ IF IsBlank(result)
       THEN /\ pc' = "sleep"
            /\ ticks' = ticks + 1
            /\ nonEmptyTicks' = nonEmptyTicks + OutputCount(result)
            /\ UNCHANGED <<buf, samples, outcome>>
       ELSE IF ParseRaises(result)
       THEN /\ pc' = "closing"
            /\ outcome' = "error"
            /\ UNCHANGED <<buf, samples, ticks, nonEmptyTicks>>
       ELSE /\ buf' = Append(buf, FormatSample(result, clock))
            /\ samples' = Append(samples, FormatSample(result, clock))
            /\ pc' = "flush"
            /\ UNCHANGED <<outcome, ticks, nonEmptyTicks>>
    /\ UNCHANGED <<file, result, clock, intrAt>>
    /\ UNCHANGED <<analyzerVars, convertVars>>

\* f.flush(): the buffered lines reach the target
FlushBuffer(f, b) == [f EXCEPT !.lines = f.lines \o b]

\* line 68 left out: the Sample stays in the buffer during the sleep
Flush_missing ==
    /\ pc = "flush"
    /\ pc' = "sleep"
    /\ ticks' = ticks + 1
    /\ nonEmptyTicks' = nonEmptyTicks + OutputCount(result)
    /\ UNCHANGED <<file, buf, result, clock, samples, outcome, intrAt>>
    /\ UNCHANGED <<analyzerVars, convertVars>>

\* line 68
Flush ==
    /\ pc = "flush"
    /\ file' = FlushBuffer(file, buf)
    /\ buf' = <<>>
    /\ pc' = "sleep"
    /\ ticks' = ticks + 1
    /\ nonEmptyTicks' = nonEmptyTicks + OutputCount(result)
    /\ UNCHANGED <<result, clock, samples, outcome, intrAt>>
    /\ UNCHANGED <<analyzerVars, convertVars>>

\* line 71
Sleep ==
    /\ pc = "sleep"
    /\ clock' = clock + 1
    /\ pc' = "query"
    /\ UNCHANGED <<file, buf, result, ticks, nonEmptyTicks, samples, outcome, intrAt>>
    /\ UNCHANGED <<analyzerVars, convertVars>>

\* `continue` in place of `break`
AfterInterrupt_continue == "query"

\* where the loop continues after `except KeyboardInterrupt`: break
AfterInterrupt == "closing"

\* lines 72-74: raised inside the try block
KeyboardInterrupt ==
    /\ pc \in {"query", "parse", "flush", "sleep"}
    /\ outcome' = "interrupted"
    /\ intrAt' = pc
    /\ pc' = AfterInterrupt
    /\ UNCHANGED <<file, buf, result, clock, ticks, nonEmptyTicks, samples>>
    /\ UNCHANGED <<analyzerVars, convertVars>>

\* leaving `with open(...) as f`: f.close() flushes the buffer
Close ==
    /\ pc = "closing"
    /\ file' = FlushBuffer(file, buf)
    /\ buf' = <<>>
    /\ pc' = "done"
    /\ UNCHANGED <<result, clock, ticks, nonEmptyTicks, samples, outcome, intrAt>>
    /\ UNCHANGED <<analyzerVars, convertVars>>

\* the process is killed: what is still in the buffer is lost
Crash ==
    /\ pc \in {"open", "query", "parse", "flush", "sleep", "closing"}
    /\ buf' = <<>>
    /\ pc' = "crashed"
    /\ UNCHANGED <<file, result, clock, ticks, nonEmptyTicks, samples, outcome, intrAt>>
    /\ UNCHANGED <<analyzerVars, convertVars>>

----------------------------------------------------------------------------
(* Floating point values.  Every value the code computes here is a          *)
(* non-negative multiple of 2^-20, exact in a double; it is kept as         *)
(* <<m, k, b>> = m + k/1024 + b/1048576 with k, b < 1024.  NaN is a         *)
(* missing cell.                                                            *)

NaN == <<-1, -1, -1>>

Float(n) == <<n, 0, 0>>

FloatLess(x, y) ==
    \/ x[1] < y[1]
    \/ x[1] = y[1] /\ x[2] < y[2]
    \/ x[1] = y[1] /\ x[2] = y[2] /\ x[3] < y[3]

DigitChars == {"0", "1", "2", "3", "4", "5", "6", "7", "8", "9"}

DigitVal(c) == CHOOSE d \in 0..9 : Digit(d) = c

RECURSIVE IntOf(_)
IntOf(s) == IF s = <<>> THEN 0 ELSE 10 * IntOf(SubSeq(s, 1, Len(s) - 1)) + DigitVal(s[Len(s)])

\* float(s) does not raise ValueError: after stripping whitespace s is a
\* non-empty run of digits (the texts of the model hold no sign, point or exponent)
IsNumeric(s) == strip(s) # <<>> /\ \A i \in 1..Len(strip(s)) : strip(s)[i] \in DigitChars

\* float(s) for a numeric s
StrToInt(s) == IntOf(strip(s))

\* "{x:.2f}": x rounded to hundredths, ties to even
Format2f(x) ==
    IF x = NaN THEN <<"nan">>
    ELSE LET frac == x[2] * 1024 + x[3]
             q == (frac * 100) \div 1048576
             r == (frac * 100) % 1048576
             up == r > 524288 \/ (r = 524288 /\ q % 2 = 1)
             h == x[1] * 100 + q + (IF up THEN 1 ELSE 0)
         IN  NatToStr(h \div 100) \o <<".", Digit((h % 100) \div 10), Digit(h % 10)>>

----------------------------------------------------------------------------
(* Unit normalizer *)

\* the branch of the if/elif chain of lines 94-102 that a stripped value takes
UnitBranch(v) ==
    IF Contains(v, <<"G", "B">>) THEN "GB"
    ELSE IF Contains(v, <<"M", "B">>) THEN "MB"
    ELSE IF Contains(v, <<"k", "B">>) THEN "kB"
    ELSE IF Contains(v, <<"B">>) THEN "B"
    ELSE "none"

\* the characters value.rstrip(...) removes in each branch
UnitChars(branch) ==
    CASE branch = "GB" -> {"G", "B"}
      [] branch = "MB" -> {"M", "B"}
      [] branch = "kB" -> {"k", "B"}
      [] branch = "B" -> {"B"}
      [] OTHER -> {}

\* n of the given unit, in MiB
Scale(branch, n) ==
    CASE branch = "GB" -> Float(n * 1024)
      [] branch = "MB" -> Float(n)
      [] branch = "kB" -> <<n \div 1024, n % 1024, 0>>
      [] branch = "B" -> <<n \div 1048576, (n \div 1024) % 1024, n % 1024>>
      [] OTHER -> Float(0)

\* lines 92-102; raised is the ValueError of float()
convert_to_mb(val) ==
    LET v == strip(val)
        branch == UnitBranch(v)
        num == rstrip(v, UnitChars(branch))
    IN  IF branch = "none"
        THEN [branch |-> branch, raised |-> FALSE, mb |-> Float(0)]
        ELSE IF ~IsNumeric(num)
        THEN [branch |-> branch, raised |-> TRUE, mb |-> NaN]
        ELSE [branch |-> branch, raised |-> FALSE, mb |-> Scale(branch, StrToInt(num))]

NotConverted == [branch |-> "none", raised |-> FALSE, mb |-> NaN]

\* one call of convert_to_mb
Convert ==
    /\ cpc = "pending"
    /\ converted' = convert_to_mb(value)
    /\ cpc' = "done"
    /\ UNCHANGED <<value, collectorVars, analyzerVars>>

----------------------------------------------------------------------------
(* Analyzer *)

\* pd.read_csv of a non-empty file whose rows have as many fields as the
\* header: the column names and, per row, its cells
Columns(lines) == split(lines[1], Comma)

Rows(lines) == [i \in 1..(Len(lines) - 1) |-> split(lines[i + 1], Comma)]

\* position of a column, 0 when df[name] raises KeyError
ColIndex(lines, name) ==
    LET hits == {i \in 1..Len(Columns(lines)) : Columns(lines)[i] = <<name>>}
    IN  IF hits = {} THEN 0 ELSE CHOOSE i \in hits : \A j \in hits : i <= j

\* the raw cells of column c; an empty cell is a missing value
Column(lines, c) ==
    [i \in 1..Len(Rows(lines)) |->
        IF c <= Len(Rows(lines)[i]) THEN Rows(lines)[i][c] ELSE <<>>]

\* read_csv infers a numeric dtype: the column has rows and every cell that
\* is present is a number; .str and value.strip() then raise AttributeError
NumericDtype(col) ==
    /\ col # <<>>
    /\ \A i \in 1..Len(col) : col[i] = <<>> \/ IsNumeric(col[i])

\* lines 88-89: df[c].str.rstrip("%").astype(float)
PercentRaises(col) ==
    \/ NumericDtype(col)
    \/ \E i \in 1..Len(col) : col[i] # <<>> /\ ~IsNumeric(rstrip(col[i], {"%"}))

PercentValues(col) ==
    [i \in 1..Len(col) |->
        IF col[i] = <<>> THEN NaN ELSE Float(StrToInt(rstrip(col[i], {"%"})))]

\* lines 104-105: df[c].apply(convert_to_mb)
DiskRaises(col) ==
    \/ NumericDtype(col)
    \/ \E i \in 1..Len(col) : col[i] = <<>> \/ convert_to_mb(col[i]).raised

DiskValues(col) == [i \in 1..Len(col) |-> convert_to_mb(col[i]).mb]

\* Series.idxmax(): the scan keeps the first position of the largest value
\* seen and skips missing values; 0 when nothing is present (ValueError)
\* the scan keeping the last position of the largest value
Better_lastWins(vals, i, best) == best = 0 \/ ~FloatLess(vals[i], vals[best])

Better(vals, i, best) == best = 0 \/ FloatLess(vals[best], vals[i])

RECURSIVE ArgMaxFrom(_, _, _)
ArgMaxFrom(vals, i, best) ==
    IF i > Len(vals) THEN best
    ELSE IF vals[i] # NaN /\ Better(vals, i, best)
    THEN ArgMaxFrom(vals, i + 1, i)
    ELSE ArgMaxFrom(vals, i + 1, best)

idxmax(vals) == ArgMaxFrom(vals, 1, 0)

\* Series.max(): fold with the larger of two values, missing values skipped
RECURSIVE SeriesMax(_)
SeriesMax(vals) ==
    IF vals = <<>> THEN NaN
    ELSE LET rest == SeriesMax(Tail(vals))
         IN  IF Head(vals) = NaN THEN rest
             ELSE IF rest = NaN \/ FloatLess(rest, Head(vals)) THEN Head(vals)
             ELSE rest

NotFoundMessage == << <<"Error: Could not find">> >>
ErrorMessage == << <<"Error analyzing statistics">> >>

\* lines 115-119
MaximaLines(max_cpu, max_mem, max_mem_percent, max_disk_read, max_disk_write) ==
    << <<"Maximum Resource Usage:">>,
       <<"CPU Usage: ">> \o Format2f(max_cpu) \o <<"%">>,
       <<"Memory Usage: ">> \o max_mem \o <<" (">> \o Format2f(max_mem_percent) \o <<"%)">>,
       <<"Disk Read: ">> \o Format2f(max_disk_read) \o <<"MB">>,
       <<"Disk Write: ">> \o Format2f(max_disk_write) \o <<"MB">> >>

\* lines 127-131
TimestampLines(ts, cpu_peak_idx, mem_peak_idx, disk_read_peak_idx, disk_write_peak_idx) ==
    << <<"Peak Usage Timestamps:">>,
       <<"CPU: ">> \o ts[cpu_peak_idx],
       <<"Memory: ">> \o ts[mem_peak_idx],
       <<"Disk Read: ">> \o ts[disk_read_peak_idx],
       <<"Disk Write: ">> \o ts[disk_write_peak_idx] >>

\* what lines 115-119 print before the statement that raises
PrintedBeforeTimestampError(maxima) == maxima \o << <<"Peak Usage Timestamps:">> >>

\* lines 84-136: everything the function prints on the given file
analyze_max_usage(f) ==
    IF ~f.exists THEN NotFoundMessage                       \* FileNotFoundError
    ELSE IF f.lines = <<>> THEN ErrorMessage                \* EmptyDataError
    ELSE
    LET c_cpu == ColIndex(f.lines, "CPU_Usage")
        c_memp == ColIndex(f.lines, "Memory_Percent")
        c_read == ColIndex(f.lines, "Disk_Read")
        c_write == ColIndex(f.lines, "Disk_Write")
        c_mem == ColIndex(f.lines, "Memory_Usage")
        c_ts == ColIndex(f.lines, "Timestamp")
    IN
    IF c_cpu = 0 \/ PercentRaises(Column(f.lines, c_cpu)) THEN ErrorMessage
    ELSE IF c_memp = 0 \/ PercentRaises(Column(f.lines, c_memp)) THEN ErrorMessage
    ELSE IF c_read = 0 \/ DiskRaises(Column(f.lines, c_read)) THEN ErrorMessage
    ELSE IF c_write = 0 \/ DiskRaises(Column(f.lines, c_write)) THEN ErrorMessage
    ELSE
    LET cpu == PercentValues(Column(f.lines, c_cpu))
        memp == PercentValues(Column(f.lines, c_memp))
        read == DiskValues(Column(f.lines, c_read))
        write == DiskValues(Column(f.lines, c_write))
        max_mem_idx == idxmax(memp)
    IN
    IF max_mem_idx = 0 THEN ErrorMessage                    \* idxmax of nothing
    ELSE IF c_mem = 0 THEN ErrorMessage                     \* KeyError, line 111
    ELSE
    LET maxima == MaximaLines(SeriesMax(cpu), Column(f.lines, c_mem)[max_mem_idx],
                              SeriesMax(memp), SeriesMax(read), SeriesMax(write))
    IN
    IF idxmax(cpu) = 0 THEN maxima \o ErrorMessage          \* line 122
    ELSE IF c_ts = 0 THEN PrintedBeforeTimestampError(maxima) \o ErrorMessage
    ELSE maxima \o TimestampLines(Column(f.lines, c_ts), idxmax(cpu), max_mem_idx,
                                  idxmax(read), idxmax(write))

NotLoaded == [exists |-> FALSE, lines |-> << <<"not loaded">> >>]

\* one run of analyze_max_usage on the target
Analyze ==
    /\ apc = "idle"
    /\ loaded' = file
    /\ loadPc' = pc
    /\ printed' = analyze_max_usage(file)
    /\ apc' = "done"
    /\ UNCHANGED <<collectorVars, convertVars>>

----------------------------------------------------------------------------
(* The collector with one analyzer run at any moment *)

Init ==
    /\ pc = "init"
    /\ file \in PriorContents
    /\ buf = <<>>
    /\ result = <<>>
    /\ clock = 1
    /\ ticks = 0
    /\ nonEmptyTicks = 0
    /\ samples = <<>>
    /\ outcome = "running"
    /\ intrAt = "none"
    /\ apc = "idle"
    /\ loaded = NotLoaded
    /\ loadPc = "none"
    /\ printed = <<>>
    /\ value = <<>>
    /\ converted = NotConverted
    /\ cpc = "off"

Next ==
    \/ Truncate
    \/ WriteHeader
    \/ Query
    \/ ParseAndWrite
    \/ Flush
    \/ Sleep
    \/ KeyboardInterrupt
    \/ Close
    \/ Crash
    \/ Analyze

Spec == Init /\ [][Next]_vars

----------------------------------------------------------------------------
(* The analyzer alone, on a bounded family of files *)

\* the cells of a row after the timestamp: container, CPU, memory usage,
\* memory percent, disk read, disk write (the fields of lines 181-189)
RowPool ==
    { << <<"c">>, <<"1", "%">>, <<"mA">>, <<"2", "%">>, <<"1", "k", "B">>, <<"2", "M", "B">> >>,
      << <<"c">>, <<"2", "%">>, <<"mB">>, <<"1", "%">>, <<"2", "M", "B">>, <<"1", "k", "B">> >>,
      << <<"c">>, <<"2", "%">>, <<"mC">>, <<"2", "%">>, <<"1", "G", "B">>, <<"1", "B">> >>,
      << <<"c">>, <<"1", "%">>, <<"mD">>, <<"1", "%">>, <<"1", "B">>, <<"1", "G", "B">> >>,
      << <<"c">>, <<"x", "%">>, <<"mE">>, <<"1", "%">>, <<"1", "k", "B">>, <<"1", "k", "B">> >>,
      << <<"c">>, <<"1", "%">>, <<"mF">>, <<"1", "%">>, <<"B", "1">>, <<"1", "k", "B">> >>,
      << <<"c">>, <<"1">>, <<"mG">>, <<"3", "%">>, <<"1", "k", "B">>, <<"1", "x">> >>,
      << <<"c">>, <<>>, <<"mH">>, <<"1", "%">>, <<"1", "k", "B">>, <<"1", "k", "B">> >> }

ColumnNames ==
    << <<"Timestamp">>, <<"Container">>, <<"CPU_Usage">>, <<"Memory_Usage">>,
       <<"Memory_Percent">>, <<"Disk_Read">>, <<"Disk_Write">> >>

\* the sequence s without its element at position k (k = 0: all of s)
Without(s, k) == [i \in 1..(Len(s) - (IF k = 0 THEN 0 ELSE 1)) |->
                    IF k = 0 \/ i < k THEN s[i] ELSE s[i + 1]]

\* a table with the given rows, written without column k
Table(cells, k) ==
    <<join(Without(ColumnNames, k), Comma)>> \o
    [i \in 1..Len(cells) |-> join(Without(<<strftime(i)>> \o cells[i], k), Comma)]

Sources ==
    { [exists |-> FALSE, lines |-> <<>>], [exists |-> TRUE, lines |-> <<>>] } \cup
    { [exists |-> TRUE, lines |-> Table(cells, k)] :
        cells \in UNION {[1..n -> RowPool] : n \in 0..MaxRows}, k \in 0..7 }

InitAnalyze ==
    /\ pc = "off"
    /\ file \in Sources
    /\ buf = <<>>
    /\ result = <<>>
    /\ clock = 1
    /\ ticks = 0
    /\ nonEmptyTicks = 0
    /\ samples = <<>>
    /\ outcome = "running"
    /\ intrAt = "none"
    /\ apc = "idle"
    /\ loaded = NotLoaded
    /\ loadPc = "none"
    /\ printed = <<>>
    /\ value = <<>>
    /\ converted = NotConverted
    /\ cpc = "off"

NextAnalyze == Analyze

SpecAnalyze == InitAnalyze /\ [][NextAnalyze]_vars

----------------------------------------------------------------------------
(* The unit normalizer alone, on every short text *)

Alphabet == {"1", "G", "M", "k", "B", " "}

Texts == UNION {[1..n -> Alphabet] : n \in 0..MaxLen}

InitConvert ==
    /\ pc = "off"
    /\ file = [exists |-> FALSE, lines |-> <<>>]
    /\ buf = <<>>
    /\ result = <<>>
    /\ clock = 1
    /\ ticks = 0
    /\ nonEmptyTicks = 0
    /\ samples = <<>>
    /\ outcome = "running"
    /\ intrAt = "none"
    /\ apc = "off"
    /\ loaded = NotLoaded
    /\ loadPc = "none"
    /\ printed = <<>>
    /\ value \in Texts
    /\ converted = NotConverted
    /\ cpc = "pending"

NextConvert == Convert

SpecConvert == InitConvert /\ [][NextConvert]_vars

----------------------------------------------------------------------------
(* Properties of the collector *)

\* the Sample lines of a target: every line but the header
Records(lines) == SelectSeq(lines, LAMBDA l : l # HEADER)

IsPrefix(s, t) == Len(s) <= Len(t) /\ SubSeq(t, 1, Len(s)) = s

InLoop == pc \in {"query", "parse", "flush", "sleep"}

\* the step is one the collector takes by itself from position p:
\* not the analyzer's, not an interruption, not a kill
OwnStepFrom(p) ==
    pc = p /\ pc' # pc /\ pc' # "crashed" /\ outcome' # "interrupted"

\* a tick whose output is empty writes nothing and goes on to the sleep
SkipStep ==
    OwnStepFrom("parse") /\ result = <<>>
        => /\ pc' = "sleep"
           /\ outcome' = "running"
           /\ file' = file /\ buf' = buf /\ samples' = samples
           /\ ticks' = ticks + 1 /\ nonEmptyTicks' = nonEmptyTicks

\* after the sleep the next query is issued
SleepStep == OwnStepFrom("sleep") => pc' = "query" /\ outcome' = "running"

\* C1: a tick with empty output appends no record and does not stop the
\* loop, and while the loop runs the number of Sample records in the target
\* is the number of completed ticks whose output was non-empty
C1_SkipEmptyTicks ==
    /\ [](InLoop /\ outcome = "running" => Len(Records(file.lines)) = nonEmptyTicks)
    /\ [][SkipStep]_vars
    /\ [][SleepStep]_vars

\* an empty tick was skipped, a Sample was recorded, and a later tick is
\* being processed
C1_Witness ==
    /\ pc = "parse" /\ outcome = "running"
    /\ ticks = 2 /\ nonEmptyTicks = 1
    /\ Len(Records(file.lines)) = 1

\* C2: whenever the collector sleeps or issues the next query the target
\* holds every Sample appended so far; at any other point, and after a
\* kill, the target lacks at most the Sample of the tick in flight
C2_DurablePerTick ==
    /\ pc \in {"sleep", "query"} => Records(buf) = <<>> /\ Records(file.lines) = samples
    /\ pc \in {"parse", "flush", "closing", "done", "crashed"} =>
         /\ IsPrefix(Records(file.lines), samples)
         /\ Len(samples) - Len(Records(file.lines)) <= 1

\* the collector was killed between the append and the flush of its second
\* Sample: the first one is in the target
C2_Witness ==
    /\ pc = "crashed"
    /\ Len(samples) = 2
    /\ Records(file.lines) = <<samples[1]>>

\* a query output that is not empty and cannot be parsed: fewer than five
\* comma-separated fields, or a block-I/O field holding the delimiter that
\* does not split into exactly two parts
Unparseable(out) ==
    LET fields == split(strip(out), Comma)
    IN  /\ strip(out) # <<>>
        /\ \/ Len(fields) < 5
           \/ /\ Contains(fields[5], Delim)
              /\ Len(split(fields[5], Delim)) # 2

FailFastStep ==
    OwnStepFrom("parse") /\ Unparseable(result)
        => /\ pc' = "closing"
           /\ outcome' = "error"
           /\ file' = file /\ buf' = buf /\ samples' = samples

AfterErrorStep ==
    outcome = "error"
        => /\ outcome' = "error"
           /\ pc' \in {"closing", "done", "crashed"}
           /\ samples' = samples /\ result' = result /\ ticks' = ticks
           /\ IsPrefix(file.lines, file'.lines)

\* C4: a tick whose output cannot be parsed ends the loop on that tick, no
\* record is appended for it, no later tick runs, and the records of the
\* earlier ticks are kept unchanged
C4_FailFastOnMalformed ==
    /\ [][FailFastStep]_vars
    /\ [][AfterErrorStep]_vars
    /\ [](outcome = "error" /\ pc = "done" => file.lines = <<HEADER>> \o samples)

\* the loop ended on a five-field line whose block-I/O field has three
\* parts, after two Samples had been recorded
C4_Witness ==
    /\ outcome = "error" /\ pc = "done"
    /\ Len(split(strip(result), Comma)) = 5
    /\ Len(samples) = 2
    /\ file.lines = <<HEADER>> \o samples

WholeRecord(line) == Len(split(line, Comma)) = 7

InterruptStep ==
    outcome = "running" /\ outcome' = "interrupted"
        => /\ pc' = "closing"
           /\ file' = file /\ buf' = buf /\ samples' = samples

AfterInterruptStep ==
    outcome = "interrupted"
        => /\ outcome' = "interrupted"
           /\ pc' \in {"closing", "done", "crashed"}
           /\ samples' = samples /\ result' = result /\ ticks' = ticks

\* C6: an interruption at any point of a tick stops the loop: no further
\* tick runs, the run is not reported as a failure, and the target is left
\* with the header and whole Sample records only
C6_CleanInterrupt ==
    /\ [][InterruptStep]_vars
    /\ [][AfterInterruptStep]_vars
    /\ [](InLoop /\ outcome = "running" => ENABLED KeyboardInterrupt)
    /\ [](outcome = "interrupted" /\ pc = "done" =>
            /\ file.lines = <<HEADER>> \o samples
            /\ \A i \in 1..Len(samples) : WholeRecord(samples[i]))

\* the interruption arrived between the append and the flush of the second
\* Sample and the collector has returned
C6_Witness ==
    /\ outcome = "interrupted" /\ pc = "done"
    /\ intrAt = "flush"
    /\ Len(samples) = 2
    /\ file.lines = <<HEADER>> \o samples

Started == pc \in {"query", "parse", "flush", "sleep", "closing", "done"}

\* C3 (as claimed): once the collector has started, before its first query
\* and ever after, the target is the header line followed only by Sample
\* records of this run, with no second header
C3_HeaderFromStart ==
    Started =>
        /\ file.exists
        /\ file.lines # <<>>
        /\ file.lines[1] = HEADER
        /\ IsPrefix(Tail(file.lines), samples)

Populated(line) ==
    LET fields == split(line, Comma)
    IN  Len(fields) = 7 /\ \A i \in 1..7 : fields[i] # <<>>

\* C5 (as claimed): every Sample record in the target of a run has exactly
\* seven comma-separated fields and none of them is empty
C5_AllFieldsPopulated ==
    Started => \A i \in 1..Len(Records(file.lines)) : Populated(Records(file.lines)[i])

AnalyzeStep == apc = "idle" /\ apc' = "done" => file' = file /\ buf' = buf /\ pc' = pc

\* C10 (as claimed): an analyzer run at any point of a running collector
\* loads the header followed by a prefix of the collector's records, each
\* whole, and leaves the target and the collector as they were
C10_InterleavedAnalyzer ==
    /\ [](apc = "done" /\ loadPc \in {"query", "parse", "flush", "sleep"} =>
            /\ loaded.exists
            /\ loaded.lines # <<>>
            /\ loaded.lines[1] = HEADER
            /\ IsPrefix(Tail(loaded.lines), samples)
            /\ \A i \in 2..Len(loaded.lines) : WholeRecord(loaded.lines[i]))
    /\ [][AnalyzeStep]_vars

----------------------------------------------------------------------------
(* Properties of the analyzer and of the unit normalizer *)

Digits(s) == s # <<>> /\ \A i \in 1..Len(s) : s[i] \in DigitChars

EndsWith(s, suffix) ==
    Len(s) >= Len(suffix) /\ SubSeq(s, Len(s) - Len(suffix) + 1, Len(s)) = suffix

WithoutSuffix(s, suffix) == SubSeq(s, 1, Len(s) - Len(suffix))

Units == { <<"G", "B">>, <<"M", "B">>, <<"k", "B">>, <<"B">> }

PercentText(s) == EndsWith(s, <<"%">>) /\ Digits(WithoutSuffix(s, <<"%">>))

MagnitudeText(s) == \E u \in Units : EndsWith(s, u) /\ Digits(WithoutSuffix(s, u))

\* a series as the collector writes it from well-formed query outputs: the
\* header, then at least one row of seven cells with percents and magnitudes
WellFormedSeries(f) ==
    /\ f.exists
    /\ Len(f.lines) >= 2
    /\ f.lines[1] = HEADER
    /\ \A i \in 2..Len(f.lines) :
         LET cells == split(f.lines[i], Comma)
         IN  /\ Len(cells) = 7
             /\ \A c \in {1, 2, 4} : cells[c] # <<>>
             /\ PercentText(cells[3]) /\ PercentText(cells[5])
             /\ MagnitudeText(cells[6]) /\ MagnitudeText(cells[7])

\* the cell of column c in data row i
CellOf(f, i, c) == split(f.lines[i + 1], Comma)[c]

\* the canonical value of each of the four metrics in data row i
Metric(f, m, i) ==
    CASE m = "cpu" -> Float(StrToInt(WithoutSuffix(CellOf(f, i, 3), <<"%">>)))
      [] m = "mem" -> Float(StrToInt(WithoutSuffix(CellOf(f, i, 5), <<"%">>)))
      [] m = "read" -> convert_to_mb(CellOf(f, i, 6)).mb
      [] m = "write" -> convert_to_mb(CellOf(f, i, 7)).mb

\* the earliest row whose value of metric m no row exceeds
PeakRow(f, m) ==
    CHOOSE j \in 1..(Len(f.lines) - 1) :
        /\ \A i \in 1..(Len(f.lines) - 1) : ~FloatLess(Metric(f, m, j), Metric(f, m, i))
        /\ \A i \in 1..(j - 1) : FloatLess(Metric(f, m, i), Metric(f, m, j))

PeakValue(f, m) == Format2f(Metric(f, m, PeakRow(f, m)))

PeakTime(f, m) == CellOf(f, PeakRow(f, m), 1)

\* C7: on a non-empty well-formed series the analyzer prints, for each of
\* the four metrics by itself, the largest value over all rows and the
\* timestamp of the earliest row that has it, and the memory-usage text of
\* the row where the memory percent peaked
C7_MaxAndEarliestPeak ==
    apc = "done" /\ WellFormedSeries(loaded) =>
        /\ Len(printed) = 10
        /\ printed[2] = <<"CPU Usage: ">> \o PeakValue(loaded, "cpu") \o <<"%">>
        /\ printed[3] = <<"Memory Usage: ">> \o CellOf(loaded, PeakRow(loaded, "mem"), 4)
                          \o <<" (">> \o PeakValue(loaded, "mem") \o <<"%)">>
        /\ printed[4] = <<"Disk Read: ">> \o PeakValue(loaded, "read") \o <<"MB">>
        /\ printed[5] = <<"Disk Write: ">> \o PeakValue(loaded, "write") \o <<"MB">>
        /\ printed[7] = <<"CPU: ">> \o PeakTime(loaded, "cpu")
        /\ printed[8] = <<"Memory: ">> \o PeakTime(loaded, "mem")
        /\ printed[9] = <<"Disk Read: ">> \o PeakTime(loaded, "read")
        /\ printed[10] = <<"Disk Write: ">> \o PeakTime(loaded, "write")

\* a series analyzed in which two rows share the largest CPU percent and
\* the four peaks fall on three different rows
C7_Witness ==
    /\ apc = "done" /\ WellFormedSeries(loaded)
    /\ Len(loaded.lines) = 4
    /\ Metric(loaded, "cpu", 1) = Metric(loaded, "cpu", 2)
    /\ PeakRow(loaded, "cpu") = 1
    /\ PeakRow(loaded, "mem") = 2
    /\ PeakRow(loaded, "read") = 2
    /\ PeakRow(loaded, "write") = 3
    /\ printed[7] = <<"CPU: ">> \o strftime(1)

\* the unit whose suffix the text ends with, tested in the order GB, MB, kB, B
SuffixUnit(v) ==
    IF EndsWith(v, <<"G", "B">>) THEN "GB"
    ELSE IF EndsWith(v, <<"M", "B">>) THEN "MB"
    ELSE IF EndsWith(v, <<"k", "B">>) THEN "kB"
    ELSE IF EndsWith(v, <<"B">>) THEN "B"
    ELSE "none"

\* C8 (as claimed): for every text, convert_to_mb strips the whitespace
\* around it and picks the unit by testing the suffixes in the order GB,
\* MB, kB, B, so a text ending in GB, MB or kB never takes the B branch,
\* and a text on which no suffix matches gives 0 without an error
C8_SuffixPrecedence ==
    cpc = "done" =>
        LET v == strip(value)
        IN  /\ converted.branch = SuffixUnit(v)
            /\ SuffixUnit(v) \in {"GB", "MB", "kB"} => converted.branch # "B"
            /\ SuffixUnit(v) = "none" => ~converted.raised /\ converted.mb = Float(0)

Failed(out) ==
    out # <<>> /\ << out[Len(out)] >> \in {NotFoundMessage, ErrorMessage}

\* the schema or the content of an existing source is malformed: it is
\* empty or holds the header only, a column of the schema is missing, or a
\* percent or a magnitude is not a number with its unit
MalformedSource(f) ==
    /\ f.exists
    /\ \/ Len(f.lines) < 2
       \/ \E c \in 1..7 : ColIndex(f.lines, ColumnNames[c][1]) = 0
       \/ \E i \in 2..Len(f.lines) :
            LET cells == split(f.lines[i], Comma)
                col(name) == cells[ColIndex(f.lines, name)]
            IN  \/ ~PercentText(col("CPU_Usage"))
                \/ ~PercentText(col("Memory_Percent"))
                \/ ~MagnitudeText(col("Disk_Read"))
                \/ ~MagnitudeText(col("Disk_Write"))

\* C9 (as claimed): the analyzer fails with NotFound on an absent source
\* and with an error on a malformed one, and a failing run prints no part
\* of the report, neither the maxima nor the peak timestamps
C9_NoPartialReport ==
    apc = "done" =>
        /\ ~loaded.exists => printed = NotFoundMessage
        /\ MalformedSource(loaded) => Failed(printed)
        /\ Failed(printed) => Len(printed) = 1

====
